---- MODULE Spec2Model ----
(***************************************************************************)
(* Canon Vault of halcyon-cinema-2.0: CanonManager                         *)
(* (src/src/modules/storyforge/canon/manager.ts) over the tables of the    *)
(* initial schema migration (src/unnamed/part_004).                        *)
(*                                                                         *)
(* The manager keeps no state of its own; the state is the database.       *)
(* Every method is a chain of awaited database calls, none of them inside  *)
(* a transaction, so each database call is one atomic step and the steps   *)
(* of concurrent requests interleave.                                      *)
(***************************************************************************)
EXTENDS Integers, FiniteSets, Sequences, Bags, TLC

\* ------------------------------------------------------------------ bounds
\* Number of manager calls started in one behaviour.
MaxOps == 3

\* The request slots: two requests can be in flight at the same time.
Procs == {1, 2}

\* ------------------------------------------------------------ value domains
\* JavaScript undefined (an absent optional field) and SQL NULL.
Undefined == "<undefined>"
Null == "<null>"

\* No canon entry / no timeline (an id that names no row).
NoId == 0

Projects == {"p1", "p2"}
\* The acting user of every call.
UserId == "u1"
LockStatuses == {"unlocked", "soft_locked", "hard_locked"}
Resolutions == {"keep_canon", "update_canon", "fork_timeline", "merge"}

\* createEntry requests: two names in one project, one name in two projects,
\* a kind without a type-specific table, a request without description.
CreateRequests ==
    { [projectId |-> "p1", kind |-> "character", name |-> "Elena",
       description |-> Undefined, data |-> "brown"],
      [projectId |-> "p1", kind |-> "character", name |-> "Marcus",
       description |-> "tall", data |-> "brown"],
      [projectId |-> "p1", kind |-> "item", name |-> "Marcus",
       description |-> "tall", data |-> "brown"],
      [projectId |-> "p2", kind |-> "character", name |-> "Elena",
       description |-> "tall", data |-> "brown"] }

\* updateEntry patches: a payload, a rename (to a name whose slug is that of
\* "Elena"), a rename with a description.
UpdatePatches ==
    { [name |-> Undefined, description |-> Undefined, entityData |-> "blue"],
      [name |-> "elena", description |-> Undefined, entityData |-> Undefined],
      [name |-> "Marcus", description |-> "short", entityData |-> Undefined] }

\* updatedCanonData of a ConflictResolutionRequest.
ResolutionPayloads == {Undefined, "green"}

\* --------------------------------------------- generator: value domains
\* canonEnforcement of StoryForgeConfig.
Enforcements == {"strict", "moderate", "relaxed"}

\* The canonEnforcement of a Partial<StoryForgeConfig> argument: a value, or
\* absent (no config, or a config without the field).
ConfigArgs == Enforcements \cup {Undefined}

\* DEFAULT_STORYFORGE_CONFIG.canonEnforcement
DEFAULT_STORYFORGE_CONFIG == "strict"

\* generatorInstance = null
NoInstance == "<no instance>"

\* An element of the JSON array in the collaborator's text. A CanonConflict
\* has severity 'warning' or 'error'; a JSON value that is no CanonConflict
\* (a number, a string, an object of another shape) has no severity.
Item(id, severity) == [id |-> id, severity |-> severity]

\* What client.messages.create can settle with: a rejection, a first content
\* block that is not text, or text. Of the text the code looks at whether it
\* holds a bracketed span (json "none" when not), whether JSON.parse accepts
\* the span (json "broken" when not) and at the parsed array, and - in
\* generate - at whether the [CANON_CONFLICT] marker precedes it.
Response(type, json, marker, items) ==
    [type |-> type, json |-> json, marker |-> marker, items |-> items]

NoResponse == Response("none", "none", FALSE, <<>>)

CollaboratorResponses ==
    { Response("rejected", "none", FALSE, <<>>),
      Response("tool_use", "none", FALSE, <<>>),
      Response("text", "none", FALSE, <<>>),
      Response("text", "broken", TRUE, <<>>),
      Response("text", "array", FALSE, <<Item(1, Undefined)>>),
      Response("text", "array", FALSE, <<Item(1, "warning"), Item(2, "error")>>),
      Response("text", "array", TRUE,
               <<Item(1, "error"), Item(2, "warning"), Item(3, "error")>>) }

\* slugify of @/lib/utils: lower-cases the name (seed data: 'Elena
\* Blackwood' has slug 'elena-blackwood').
slugify(name) ==
    CASE name = "Elena" -> "elena"
      [] name = "elena" -> "elena"
      [] name = "Marcus" -> "marcus"
      [] OTHER -> name

\* JavaScript truthiness of an optional string / object field.
Truthy(v) == v # Undefined /\ v # Null /\ v # ""

\* a || b
OrElse(a, b) == IF Truthy(a) THEN a ELSE b

\* a ?? b
Coalesce(a, b) == IF a = Undefined \/ a = Null THEN b ELSE a

\* ------------------------------------------------------------------- state
VARIABLES
    entries,     \* canon_entries: id -> row
    versions,    \* canon_versions: bag of rows
    typeRecs,    \* canon_characters (the type-specific table): entry id -> row
    timelines,   \* timelines: id -> row
    nextId,      \* next generated canon entry id
    nextTl,      \* next generated timeline id
    proc,        \* per request: the call it runs and where it is in it
    ops,         \* calls started so far
    generatorInstance,  \* the module-level singleton of engine/generator.ts
    obtained,    \* the generators and adapters handed out so far
    gcall,       \* the generator call in flight, or the last one
    gops         \* generator calls started so far

\* The database and the manager's requests.
dbvars == <<entries, versions, typeRecs, timelines, nextId, nextTl, proc, ops>>

\* The generator module.
gvars == <<generatorInstance, obtained, gcall, gops>>

vars == <<entries, versions, typeRecs, timelines, nextId, nextTl, proc, ops,
          generatorInstance, obtained, gcall, gops>>

NoUpdates == [name |-> Undefined, description |-> Undefined, entityData |-> Undefined]

NoEntry == [project_id |-> "", entity_type |-> "", name |-> "", slug |-> "",
            description |-> Null, data |-> "", lock_status |-> "unlocked",
            locked_by |-> Null, version |-> 0, timeline_id |-> NoId,
            is_active |-> FALSE]

IdleProc == [op |-> "none", pc |-> "done", entryId |-> NoId, projectId |-> "",
             kind |-> "", updates |-> NoUpdates, reason |-> "", cur |-> NoEntry,
             snap |-> 0, tl |-> NoId, result |-> "none", at |-> "", lostTo |-> NoId]

\* No generator call has been made. (threw: an exception left the call; no
\* statement of generate or validateAgainstCanon that can throw is outside
\* its try block.)
IdleCall == [op |-> "none", pc |-> "done", handle |-> 0, projectId |-> "",
             enforcement |-> "", called |-> FALSE, response |-> NoResponse,
             threw |-> FALSE, success |-> FALSE, context |-> {}, result |-> <<>>]

\* The generator module when it has been loaded: let generatorInstance = null.
GenIdle ==
    /\ generatorInstance = NoInstance
    /\ obtained = <<>>
    /\ gcall = IdleCall
    /\ gops = 0

Init ==
    /\ GenIdle
    /\ entries = <<>>
    /\ versions = EmptyBag
    /\ typeRecs = <<>>
    /\ timelines = <<>>
    /\ nextId = 1
    /\ nextTl = 1
    /\ proc = [p \in Procs |-> IdleProc]
    /\ ops = 0

\* ------------------------------------------------------- storage operations
\* idx_canon_project_slug created as a plain index: nothing is rejected.
SlugIndexViolatedMut(es, id, row) == FALSE

\* CREATE UNIQUE INDEX idx_canon_project_slug ON canon_entries(project_id,
\* slug) WHERE is_active = TRUE: would row `row` stored under `id` collide?
SlugIndexViolated(es, id, row) ==
    /\ row.is_active
    /\ \E o \in DOMAIN es :
        /\ o # id
        /\ es[o].is_active
        /\ es[o].project_id = row.project_id
        /\ es[o].slug = row.slug

\* History only: the active row that holds the (project_id, slug) of `row`.
SlugHolder(es, row) ==
    CHOOSE o \in DOMAIN es :
        es[o].is_active /\ es[o].project_id = row.project_id /\ es[o].slug = row.slug

\* updateEntry with the lock check left out.
IsHardLockedMut(entry) == FALSE

\* updateEntry refusing every locked entry, soft-locked ones included.
IsAnyLockedMut(entry) == entry.lock_status # "unlocked"

\* The hard-lock check of updateEntry.
IsHardLocked(entry) == entry.lock_status = "hard_locked"

\* Tables that createTypeSpecificRecord / updateTypeSpecificRecord switch on.
HasTypeTable(kind) == kind \in {"character", "location", "rule", "event", "theme"}

\* canon_versions insert of createVersion; the foreign key on canon_entry_id
\* rejects a row for a missing entry and the error is not looked at.
createVersion(vs, es, id, version, name, description, data, userId, reason) ==
    IF id \in DOMAIN es
    THEN vs (+) SetToBag({[canon_entry_id |-> id, version |-> version,
                           name |-> name, description |-> description,
                           data |-> data, changed_by |-> userId,
                           change_reason |-> reason, change_type |-> "manual"]})
    ELSE vs

\* Rows of canon_versions of one entry.
VersionRows(vs, id) == {r \in DOMAIN vs : r.canon_entry_id = id}

\* Removes the key k from the function f.
Without(f, k) == [x \in DOMAIN f \ {k} |-> f[x]]

\* The slot a new request takes: the first free one (the slots are
\* interchangeable).
FirstFree(p) == proc[p].pc = "done" /\ \A q \in Procs : q < p => proc[q].pc # "done"

Begin(p) ==
    /\ FirstFree(p)
    /\ ops < MaxOps
    /\ ops' = ops + 1

\* A call that has returned keeps nothing but what it was, what it returned
\* ("ok": true or the created entry, "fail": false or null) and the return
\* statement it left by.
Return(call, res, at) ==
    [IdleProc EXCEPT !.op = call.op, !.entryId = call.entryId, !.result = res,
                     !.at = at]

Finish(p, res, at) == Return(proc[p], res, at)

\* ------------------------------------------------------------- createEntry
\* createEntry up to its first await: slugify and the canon_entries insert.
CreateInsert(p, projectId, kind, name, description, data) ==
    /\ Begin(p)
    /\ LET row == [project_id |-> projectId, entity_type |-> kind,
                   name |-> name, slug |-> slugify(name),
                   description |-> IF description = Undefined THEN Null ELSE description,
                   data |-> data, lock_status |-> "unlocked", locked_by |-> Null,
                   version |-> 1, timeline_id |-> NoId, is_active |-> TRUE]
           call == [IdleProc EXCEPT !.op = "createEntry", !.projectId = projectId,
                       !.kind = kind,
                       !.updates = [name |-> name, description |-> description,
                                    entityData |-> data]]
       IN IF SlugIndexViolated(entries, nextId, row)
          THEN /\ proc' = [proc EXCEPT ![p] =
                            [Return(call, "fail", "entryError") EXCEPT
                                !.lostTo = SlugHolder(entries, row)]]
               /\ UNCHANGED <<entries, nextId>>
          ELSE /\ entries' = (nextId :> row) @@ entries
               /\ nextId' = nextId + 1
               /\ proc' = [proc EXCEPT ![p] = [call EXCEPT !.pc = "cr_type",
                                                  !.entryId = nextId]]
    /\ UNCHANGED <<versions, typeRecs, timelines, nextTl>>

\* createTypeSpecificRecord.
CreateTypeSpecific(p) ==
    /\ proc[p].pc = "cr_type"
    /\ IF HasTypeTable(proc[p].kind) /\ proc[p].entryId \in DOMAIN entries
       THEN /\ typeRecs' = (proc[p].entryId :> [project_id |-> proc[p].projectId,
                                                name |-> proc[p].updates.name,
                                                data |-> proc[p].updates.entityData])
                           @@ typeRecs
            /\ proc' = [proc EXCEPT ![p].pc = "cr_version"]
       ELSE /\ proc' = [proc EXCEPT ![p].pc = "cr_rollback"]
            /\ UNCHANGED typeRecs
    /\ UNCHANGED <<entries, versions, timelines, nextId, nextTl, ops>>

\* "Rollback entry creation": delete the canon_entries row (ON DELETE CASCADE
\* takes its canon_versions and type-specific rows with it).
CreateRollback(p) ==
    /\ proc[p].pc = "cr_rollback"
    /\ LET id == proc[p].entryId IN
        /\ entries' = Without(entries, id)
        /\ typeRecs' = Without(typeRecs, id)
        /\ versions' = [r \in DOMAIN versions \ VersionRows(versions, id) |-> versions[r]]
    /\ proc' = [proc EXCEPT ![p] = Finish(p, "fail", "rollback")]
    /\ UNCHANGED <<timelines, nextId, nextTl, ops>>

\* "Create initial version".
CreateInitialVersion(p) ==
    /\ proc[p].pc = "cr_version"
    /\ versions' = createVersion(versions, entries, proc[p].entryId, 1,
                                 proc[p].updates.name,
                                 OrElse(proc[p].updates.description, Null),
                                 proc[p].updates.entityData, Null, "Created")
    /\ proc' = [proc EXCEPT ![p] = Finish(p, "ok", "")]
    /\ UNCHANGED <<entries, typeRecs, timelines, nextId, nextTl, ops>>

\* ------------------------------------------------------------- updateEntry
\* updateEntry up to its lock check: read the entry, refuse when it is missing
\* or hard-locked.
UpdateReadResult(call, id) ==
    IF id \notin DOMAIN entries THEN Return(call, "fail", "fetchError")
    ELSE IF IsHardLocked(entries[id]) THEN Return(call, "fail", "hard_locked")
    ELSE [call EXCEPT !.pc = "up_write", !.cur = entries[id]]

\* The row updateEntry writes: entryUpdates applied to the stored row.
ApplyEntryUpdates(row, updates, cur) ==
    LET n == IF Truthy(updates.name)
             THEN [row EXCEPT !.name = updates.name, !.slug = slugify(updates.name)]
             ELSE row
        d == IF updates.description # Undefined
             THEN [n EXCEPT !.description = updates.description]
             ELSE n
        e == IF Truthy(updates.entityData)
             THEN [d EXCEPT !.data = updates.entityData]
             ELSE d
    IN [e EXCEPT !.version = cur.version + 1]

\* A direct updateEntry call, up to the await of the read.
UpdateEntry(p, id, updates) ==
    /\ Begin(p)
    /\ proc' = [proc EXCEPT ![p] =
                  UpdateReadResult([IdleProc EXCEPT !.op = "updateEntry", !.entryId = id,
                                       !.updates = updates, !.reason = "Updated"], id)]
    /\ UNCHANGED <<entries, versions, typeRecs, timelines, nextId, nextTl>>

\* The read of an updateEntry that restoreVersion issued.
UpdateRead(p) ==
    /\ proc[p].pc = "up_read"
    /\ proc' = [proc EXCEPT ![p] = UpdateReadResult(proc[p], proc[p].entryId)]
    /\ UNCHANGED <<entries, versions, typeRecs, timelines, nextId, nextTl, ops>>

\* canon_entries.update(entryUpdates).eq('id', entryId)
UpdateWrite(p) ==
    /\ proc[p].pc = "up_write"
    /\ LET id == proc[p].entryId
           nextPc == IF Truthy(proc[p].updates.entityData) THEN "up_type" ELSE "up_version"
       IN IF id \notin DOMAIN entries
          THEN /\ proc' = [proc EXCEPT ![p].pc = nextPc]
               /\ UNCHANGED entries
          ELSE LET row == ApplyEntryUpdates(entries[id], proc[p].updates, proc[p].cur)
               IN IF SlugIndexViolated(entries, id, row)
                  THEN /\ proc' = [proc EXCEPT ![p] = Finish(p, "fail", "updateError")]
                       /\ UNCHANGED entries
                  ELSE /\ entries' = [entries EXCEPT ![id] = row]
                       /\ proc' = [proc EXCEPT ![p].pc = nextPc]
    /\ UNCHANGED <<versions, typeRecs, timelines, nextId, nextTl, ops>>

\* updateTypeSpecificRecord
UpdateTypeSpecific(p) ==
    /\ proc[p].pc = "up_type"
    /\ LET id == proc[p].entryId IN
        typeRecs' = IF HasTypeTable(proc[p].cur.entity_type) /\ id \in DOMAIN typeRecs
                    THEN [typeRecs EXCEPT
                            ![id].name = OrElse(proc[p].updates.name, proc[p].cur.name),
                            ![id].data = proc[p].updates.entityData]
                    ELSE typeRecs
    /\ proc' = [proc EXCEPT ![p].pc = "up_version"]
    /\ UNCHANGED <<entries, versions, timelines, nextId, nextTl, ops>>

\* "Create version history"
UpdateVersion(p) ==
    /\ proc[p].pc = "up_version"
    /\ versions' = createVersion(versions, entries, proc[p].entryId,
                                 proc[p].cur.version + 1,
                                 OrElse(proc[p].updates.name, proc[p].cur.name),
                                 Coalesce(proc[p].updates.description, proc[p].cur.description),
                                 OrElse(proc[p].updates.entityData, proc[p].cur.data),
                                 OrElse(UserId, Null),
                                 OrElse(proc[p].reason, "Updated"))
    /\ proc' = [proc EXCEPT ![p] = Finish(p, "ok", "")]
    /\ UNCHANGED <<entries, typeRecs, timelines, nextId, nextTl, ops>>

\* ---------------------------------------------------- lockEntry, deleteEntry
\* lockEntry treated as a content change: it also bumps the version.
lockEntryMut(p, id, lockStatus) ==
    /\ Begin(p)
    /\ entries' = IF id \in DOMAIN entries
                  THEN [entries EXCEPT
                          ![id].lock_status = lockStatus,
                          ![id].locked_by = IF lockStatus # "unlocked" THEN UserId ELSE Null,
                          ![id].version = @ + 1]
                  ELSE entries
    /\ proc' = [proc EXCEPT ![p] = Return([IdleProc EXCEPT !.op = "lockEntry", !.entryId = id],
                                          "ok", "")]
    /\ UNCHANGED <<versions, typeRecs, timelines, nextId, nextTl>>

\* (locked_at, a timestamp, is left out.)
lockEntry(p, id, lockStatus) ==
    /\ Begin(p)
    /\ entries' = IF id \in DOMAIN entries
                  THEN [entries EXCEPT
                          ![id].lock_status = lockStatus,
                          ![id].locked_by = IF lockStatus # "unlocked" THEN UserId ELSE Null]
                  ELSE entries
    /\ proc' = [proc EXCEPT ![p] = Return([IdleProc EXCEPT !.op = "lockEntry", !.entryId = id],
                                          "ok", "")]
    /\ UNCHANGED <<versions, typeRecs, timelines, nextId, nextTl>>

deleteEntry(p, id) ==
    /\ Begin(p)
    /\ entries' = IF id \in DOMAIN entries
                  THEN [entries EXCEPT ![id].is_active = FALSE]
                  ELSE entries
    /\ proc' = [proc EXCEPT ![p] = Return([IdleProc EXCEPT !.op = "deleteEntry", !.entryId = id],
                                          "ok", "")]
    /\ UNCHANGED <<versions, typeRecs, timelines, nextId, nextTl>>

\* -------------------------------------------------------- loadCanonContext
\* loadCanonContext without the is_active filter on the joined entry.
loadCanonContextMut(projectId) ==
    {id \in DOMAIN typeRecs :
        /\ typeRecs[id].project_id = projectId
        /\ id \in DOMAIN entries}

\* The entries loadCanonContext returns: the rows of the type-specific tables
\* with the project_id, inner-joined to their active canon_entries row
\* (named here by the canon entry they belong to).
loadCanonContext(projectId) ==
    {id \in DOMAIN typeRecs :
        /\ typeRecs[id].project_id = projectId
        /\ id \in DOMAIN entries
        /\ entries[id].is_active}

\* What loadCharacters maps a joined row to: the name of the type-specific
\* row, the description and the lock flag of the canon entry.
ContextRow(id) ==
    [name |-> typeRecs[id].name,
     description |-> entries[id].description,
     locked |-> entries[id].lock_status # "unlocked"]

\* ---------------------------------------------------------- restoreVersion
\* restoreVersion up to its call of updateEntry: .single() on the snapshot
\* (an error unless exactly one row matches).
restoreVersion(p, id, version) ==
    /\ Begin(p)
    /\ LET rows == {r \in VersionRows(versions, id) : r.version = version}
           call == [IdleProc EXCEPT !.op = "restoreVersion", !.entryId = id,
                       !.snap = version]
       IN IF Cardinality(rows) = 1 /\ \A r \in rows : versions[r] = 1
          THEN LET versionData == CHOOSE r \in rows : TRUE IN
               proc' = [proc EXCEPT ![p] =
                          [call EXCEPT !.pc = "up_read",
                              !.updates = [name |-> versionData.name,
                                           description |-> versionData.description,
                                           entityData |-> versionData.data],
                              !.reason = "Restored"]]
          ELSE proc' = [proc EXCEPT ![p] = Return(call, "fail", "versionError")]
    /\ UNCHANGED <<entries, versions, typeRecs, timelines, nextId, nextTl>>

\* --------------------------------------------------------- resolveConflict
\* keep_canon that first looks the entry up and fails when it is missing.
ResolveKeepCanonMut(p, id) ==
    /\ Begin(p)
    /\ proc' = [proc EXCEPT ![p] = Return([IdleProc EXCEPT !.op = "keep_canon", !.entryId = id],
                                          IF id \in DOMAIN entries THEN "ok" ELSE "fail", "")]
    /\ UNCHANGED <<entries, versions, typeRecs, timelines, nextId, nextTl>>

\* case 'keep_canon'
ResolveKeepCanon(p, id) ==
    /\ Begin(p)
    /\ proc' = [proc EXCEPT ![p] = Return([IdleProc EXCEPT !.op = "keep_canon", !.entryId = id],
                                          "ok", "")]
    /\ UNCHANGED <<entries, versions, typeRecs, timelines, nextId, nextTl>>

\* case 'update_canon'
ResolveUpdateCanon(p, id, updatedCanonData) ==
    /\ Begin(p)
    /\ LET call == [IdleProc EXCEPT !.op = "update_canon", !.entryId = id,
                       !.updates = [NoUpdates EXCEPT !.entityData = updatedCanonData],
                       !.reason = "Conflict"]
       IN proc' = [proc EXCEPT ![p] =
                     IF ~Truthy(updatedCanonData)
                     THEN Return(call, "fail", "no_payload")
                     ELSE UpdateReadResult(call, id)]
    /\ UNCHANGED <<entries, versions, typeRecs, timelines, nextId, nextTl>>

\* An unrecognised resolution treated like keep_canon: it returns true.
ResolveDefaultMut(p, id, resolution) ==
    /\ resolution \notin {"keep_canon", "update_canon", "fork_timeline"}
    /\ Begin(p)
    /\ proc' = [proc EXCEPT ![p] = Return([IdleProc EXCEPT !.op = resolution, !.entryId = id],
                                          "ok", "default")]
    /\ UNCHANGED <<entries, versions, typeRecs, timelines, nextId, nextTl>>

\* default: an unrecognised resolution
ResolveDefault(p, id, resolution) ==
    /\ resolution \notin {"keep_canon", "update_canon", "fork_timeline"}
    /\ Begin(p)
    /\ proc' = [proc EXCEPT ![p] = Return([IdleProc EXCEPT !.op = resolution, !.entryId = id],
                                          "fail", "default")]
    /\ UNCHANGED <<entries, versions, typeRecs, timelines, nextId, nextTl>>

\* case 'fork_timeline': forkTimeline up to the await of its read.
ForkRead(p, projectId, id) ==
    /\ Begin(p)
    /\ LET call == [IdleProc EXCEPT !.op = "fork_timeline", !.entryId = id,
                       !.projectId = projectId]
       IN proc' = [proc EXCEPT ![p] =
                     IF id \notin DOMAIN entries
                     THEN Return(call, "fail", "no_entry")
                     ELSE [call EXCEPT !.pc = "fk_timeline", !.cur = entries[id]]]
    /\ UNCHANGED <<entries, versions, typeRecs, timelines, nextId, nextTl>>

\* "Create new timeline"
ForkTimelineInsert(p) ==
    /\ proc[p].pc = "fk_timeline"
    /\ timelines' = (nextTl :> [project_id |-> proc[p].projectId, is_main |-> FALSE,
                                parent_timeline_id |-> NoId]) @@ timelines
    /\ nextTl' = nextTl + 1
    /\ proc' = [proc EXCEPT ![p].pc = "fk_dup", ![p].tl = nextTl]
    /\ UNCHANGED <<entries, versions, typeRecs, nextId, ops>>

\* "Duplicate the conflicting canon entry with the new timeline"
ForkDuplicate(p) ==
    /\ proc[p].pc = "fk_dup"
    /\ LET row == [proc[p].cur EXCEPT !.timeline_id = proc[p].tl, !.version = 1]
       IN IF SlugIndexViolated(entries, nextId, row)
          THEN /\ proc' = [proc EXCEPT ![p] = Finish(p, "fail", "duplicateError")]
               /\ UNCHANGED <<entries, nextId>>
          ELSE /\ entries' = (nextId :> row) @@ entries
               /\ nextId' = nextId + 1
               /\ proc' = [proc EXCEPT ![p] = Finish(p, "ok", "")]
    /\ UNCHANGED <<versions, typeRecs, timelines, nextTl, ops>>

\* ---------------------------------------------------------------- generator
\* Number of generator-module calls started in one behaviour.
MaxGenOps == 3

\* new StoryForgeGenerator(config): { ...DEFAULT_STORYFORGE_CONFIG, ...config }
NewGenerator(config) == Coalesce(config, DEFAULT_STORYFORGE_CONFIG)

\* getStoryForgeGenerator(config): the instance is created by the first call
\* only; every call returns the one instance.
getStoryForgeGenerator(config) ==
    /\ gops < MaxGenOps
    /\ gops' = gops + 1
    /\ generatorInstance' = IF generatorInstance = NoInstance
                            THEN NewGenerator(config)
                            ELSE generatorInstance
    /\ obtained' = Append(obtained, [via |-> "getStoryForgeGenerator",
                                     requested |-> config])
    /\ UNCHANGED gcall
    /\ UNCHANGED dbvars

\* createStoryForgeAdapter(config): new StoryForgePublicAdapter(config), whose
\* generator is getStoryForgeGenerator(config).
createStoryForgeAdapter(config) ==
    /\ gops < MaxGenOps
    /\ gops' = gops + 1
    /\ generatorInstance' = IF generatorInstance = NoInstance
                            THEN NewGenerator(config)
                            ELSE generatorInstance
    /\ obtained' = Append(obtained, [via |-> "createStoryForgeAdapter",
                                     requested |-> config])
    /\ UNCHANGED gcall
    /\ UNCHANGED dbvars

\* A generator call starts on the object handed out as number h.
BeginCall(h) ==
    /\ h \in 1..Len(obtained)
    /\ gcall.pc = "done"
    /\ gops < MaxGenOps
    /\ gops' = gops + 1
    /\ UNCHANGED <<generatorInstance, obtained>>
    /\ UNCHANGED dbvars

\* A filter that lets every conflict through.
FilterErrorsMut(conflicts) == conflicts

\* conflicts.filter((c) => c.severity === 'error')
FilterErrors(conflicts) == SelectSeq(conflicts, LAMBDA c : c.severity = "error")

\* validateAgainstCanon up to the await of client.messages.create; 'relaxed'
\* returns before the call.
validateAgainstCanon(h) ==
    /\ BeginCall(h)
    /\ LET call == [IdleCall EXCEPT !.op = "validateAgainstCanon", !.handle = h,
                                    !.enforcement = generatorInstance]
       IN gcall' = IF generatorInstance = "relaxed"
                   THEN call
                   ELSE [call EXCEPT !.pc = "awaiting", !.called = TRUE]

\* client.messages.create settles: the collaborator answers or the request
\* fails. Nothing in the code bounds the time this takes.
CollaboratorSettles(response) ==
    /\ gcall.pc = "awaiting"
    /\ gcall' = [gcall EXCEPT !.pc = "settled", !.response = response]
    /\ UNCHANGED <<generatorInstance, obtained, gops>>
    /\ UNCHANGED dbvars

\* The value validateAgainstCanon returns for a settled call: [] from the
\* catch block (rejection, non-text block, JSON.parse or filter throwing) and
\* when the text has no bracketed span; else the parsed array, filtered under
\* 'moderate'.
ValidationResult(response, enforcement) ==
    IF response.type # "text" \/ response.json # "array"
    THEN <<>>
    ELSE IF enforcement = "moderate"
         THEN FilterErrors(response.items)
         ELSE response.items

\* validateAgainstCanon after the await. Every exception is caught.
ValidateReturn ==
    /\ gcall.op = "validateAgainstCanon"
    /\ gcall.pc = "settled"
    /\ gcall' = [gcall EXCEPT !.pc = "done",
                              !.result = ValidationResult(gcall.response,
                                                          generatorInstance)]
    /\ UNCHANGED <<generatorInstance, obtained, gops>>
    /\ UNCHANGED dbvars

\* The adapter's loadCanonContext: a read of the database.
LoadCanonContext(h, projectId) ==
    /\ BeginCall(h)
    /\ obtained[h].via = "createStoryForgeAdapter"
    /\ gcall' = [IdleCall EXCEPT !.op = "loadCanonContext", !.handle = h,
                                 !.projectId = projectId,
                                 !.context = loadCanonContext(projectId)]

\* generate up to the await of client.messages.create: the canon context is
\* loaded (by the adapter or by the caller) and put into the prompt.
generate(h, projectId) ==
    /\ BeginCall(h)
    /\ gcall' = [IdleCall EXCEPT !.op = "generate", !.handle = h, !.pc = "awaiting",
                                 !.projectId = projectId, !.called = TRUE,
                                 !.context = loadCanonContext(projectId)]

\* parseResponseForConflicts: the array after the [CANON_CONFLICT] marker,
\* [] without marker or when JSON.parse throws.
parseResponseForConflicts(response) ==
    IF response.marker /\ response.json = "array" THEN response.items ELSE <<>>

\* A generate that acts on the conflicts it finds: it soft-locks the entries
\* of the project.
GenerateReturnMut ==
    /\ gcall.op = "generate"
    /\ gcall.pc = "settled"
    /\ gcall' = IF gcall.response.type = "text"
                THEN [gcall EXCEPT !.pc = "done", !.success = TRUE,
                                   !.result = parseResponseForConflicts(gcall.response)]
                ELSE [gcall EXCEPT !.pc = "done", !.success = FALSE]
    /\ entries' = [e \in DOMAIN entries |->
                     IF entries[e].project_id = gcall.projectId
                     THEN [entries[e] EXCEPT !.lock_status = "soft_locked"]
                     ELSE entries[e]]
    /\ UNCHANGED <<generatorInstance, obtained, gops>>
    /\ UNCHANGED <<versions, typeRecs, timelines, nextId, nextTl, proc, ops>>

\* generate after the await: success with the conflicts found in the text,
\* or the catch block's failure response.
GenerateReturn ==
    /\ gcall.op = "generate"
    /\ gcall.pc = "settled"
    /\ gcall' = IF gcall.response.type = "text"
                THEN [gcall EXCEPT !.pc = "done", !.success = TRUE,
                                   !.result = parseResponseForConflicts(gcall.response)]
                ELSE [gcall EXCEPT !.pc = "done", !.success = FALSE]
    /\ UNCHANGED <<generatorInstance, obtained, gops>>
    /\ UNCHANGED dbvars

\* ------------------------------------------------------------ specification
\* Entry ids a caller can name: the stored ones and one that names no row.
EntryIds == DOMAIN entries \cup {NoId}

\* Snapshot numbers a caller can name for an entry, and one without snapshot.
SnapshotNumbers(id) == {r.version : r \in VersionRows(versions, id)} \cup {0}

Next ==
    \E p \in Procs :
        \/ \E r \in CreateRequests :
              CreateInsert(p, r.projectId, r.kind, r.name, r.description, r.data)
              /\ UNCHANGED gvars
        \/ CreateTypeSpecific(p) /\ UNCHANGED gvars
        \/ CreateRollback(p) /\ UNCHANGED gvars
        \/ CreateInitialVersion(p) /\ UNCHANGED gvars
        \/ \E id \in EntryIds, updates \in UpdatePatches :
              UpdateEntry(p, id, updates) /\ UNCHANGED gvars
        \/ UpdateRead(p) /\ UNCHANGED gvars
        \/ UpdateWrite(p) /\ UNCHANGED gvars
        \/ UpdateTypeSpecific(p) /\ UNCHANGED gvars
        \/ UpdateVersion(p) /\ UNCHANGED gvars
        \/ \E id \in EntryIds, lockStatus \in LockStatuses :
              lockEntry(p, id, lockStatus) /\ UNCHANGED gvars
        \/ \E id \in EntryIds : deleteEntry(p, id) /\ UNCHANGED gvars
        \/ \E id \in EntryIds : \E version \in SnapshotNumbers(id) :
              restoreVersion(p, id, version) /\ UNCHANGED gvars
        \/ \E id \in EntryIds : ResolveKeepCanon(p, id) /\ UNCHANGED gvars
        \/ \E id \in EntryIds, data \in ResolutionPayloads :
              ResolveUpdateCanon(p, id, data) /\ UNCHANGED gvars
        \/ \E id \in EntryIds, resolution \in Resolutions :
              ResolveDefault(p, id, resolution) /\ UNCHANGED gvars
        \/ \E id \in EntryIds, projectId \in Projects :
              ForkRead(p, projectId, id) /\ UNCHANGED gvars
        \/ ForkTimelineInsert(p) /\ UNCHANGED gvars
        \/ ForkDuplicate(p) /\ UNCHANGED gvars

Spec == Init /\ [][Next]_vars

\* --------------------------------------------- generator specification
\* The canon the generator module runs against: an empty database, and one
\* that createEntry (twice), lockEntry and deleteEntry have left - a
\* hard-locked character and a soft-deleted one in project p1.
StoredElena ==
    [project_id |-> "p1", entity_type |-> "character", name |-> "Elena",
     slug |-> "elena", description |-> Null, data |-> "brown",
     lock_status |-> "hard_locked", locked_by |-> UserId, version |-> 1,
     timeline_id |-> NoId, is_active |-> TRUE]

StoredMarcus ==
    [project_id |-> "p1", entity_type |-> "character", name |-> "Marcus",
     slug |-> "marcus", description |-> "tall", data |-> "brown",
     lock_status |-> "unlocked", locked_by |-> Null, version |-> 1,
     timeline_id |-> NoId, is_active |-> FALSE]

CanonSnapshots ==
    { [entries |-> <<>>, versions |-> EmptyBag, typeRecs |-> <<>>, nextId |-> 1],
      [entries |-> <<StoredElena, StoredMarcus>>,
       versions |-> createVersion(
                       createVersion(EmptyBag, <<StoredElena, StoredMarcus>>, 1, 1,
                                     "Elena", Null, "brown", Null, "Created"),
                       <<StoredElena, StoredMarcus>>, 2, 1,
                       "Marcus", "tall", "brown", Null, "Created"),
       typeRecs |-> <<[project_id |-> "p1", name |-> "Elena", data |-> "brown"],
                      [project_id |-> "p1", name |-> "Marcus", data |-> "brown"]>>,
       nextId |-> 3] }

GenInit ==
    /\ GenIdle
    /\ \E db \in CanonSnapshots :
          /\ entries = db.entries
          /\ versions = db.versions
          /\ typeRecs = db.typeRecs
          /\ nextId = db.nextId
    /\ timelines = <<>>
    /\ nextTl = 1
    /\ proc = [p \in Procs |-> IdleProc]
    /\ ops = 0

GenNext ==
    \/ \E config \in ConfigArgs : getStoryForgeGenerator(config)
    \/ \E config \in ConfigArgs : createStoryForgeAdapter(config)
    \/ \E h \in 1..Len(obtained) : validateAgainstCanon(h)
    \/ \E h \in 1..Len(obtained), projectId \in Projects : LoadCanonContext(h, projectId)
    \/ \E h \in 1..Len(obtained), projectId \in Projects : generate(h, projectId)
    \/ \E response \in CollaboratorResponses : CollaboratorSettles(response)
    \/ ValidateReturn
    \/ GenerateReturn

GenSpec == GenInit /\ [][GenNext]_vars

\* The generator's own steps are taken when they can be; nothing makes the
\* collaborator answer.
GenFairSpec == GenSpec /\ WF_vars(ValidateReturn) /\ WF_vars(GenerateReturn)

\* ------------------------------------------------------------------ claims
\* Request p takes a step.
Acts(p) == proc'[p] # proc[p]

\* Request p starts a call in this step.
Starts(p, opNames) == FirstFree(p) /\ ops' = ops + 1 /\ proc'[p].op \in opNames

\* Request p performs the read of updateEntry in this step (called directly,
\* by resolveConflict update_canon, or by restoreVersion).
ReadsForUpdate(p) ==
    \/ Starts(p, {"updateEntry", "update_canon"}) /\ proc'[p].at # "no_payload"
    \/ proc[p].pc = "up_read" /\ Acts(p)

\* The content of an entry row.
Content(row) == <<row.name, row.description, row.data>>

\* canon_versions rows that this step adds.
AddedRows == {r \in DOMAIN versions' : CopiesIn(r, versions') > CopiesIn(r, versions)}

\* C1: an updateEntry that finds the entry hard_locked - called directly,
\* through restoreVersion or through resolveConflict update_canon - returns
\* failure and changes no entry, no version row and no type-specific row; an
\* update goes on to its write only when it read a lock state other than
\* hard_locked.
C1_HardLockBlocksUpdate ==
    [][\A p \in Procs :
         LET id == proc'[p].entryId IN
         (ReadsForUpdate(p) /\ id \in DOMAIN entries)
            => IF entries[id].lock_status = "hard_locked"
               THEN /\ proc'[p].pc = "done"
                    /\ proc'[p].result = "fail"
                    /\ UNCHANGED <<entries, versions, typeRecs>>
               ELSE proc'[p].pc = "up_write"]_vars

\* A resolveConflict update_canon was refused on a hard-locked entry, which
\* is still at the version it had.
C1_Witness ==
    \E p \in Procs :
        /\ proc[p].op = "update_canon"
        /\ proc[p].pc = "done"
        /\ proc[p].result = "fail"
        /\ proc[p].at = "hard_locked"
        /\ proc[p].entryId \in DOMAIN entries
        /\ entries[proc[p].entryId].lock_status = "hard_locked"
        /\ entries[proc[p].entryId].version = 1

\* C2: every successful write of updateEntry sets the stored version to
\* exactly the previously stored version + 1.
C2_VersionPlusOne ==
    [][\A p \in Procs :
         LET id == proc[p].entryId IN
         (proc[p].pc = "up_write" /\ Acts(p) /\ proc'[p].pc # "done" /\ id \in DOMAIN entries)
            => entries'[id].version = entries[id].version + 1]_vars

\* C3: an updateEntry whose read version is no longer the stored version when
\* it writes (another update got in between) fails and its patch is not
\* applied.
C3_StaleWriterFails ==
    [][\A p \in Procs :
         LET id == proc[p].entryId IN
         (proc[p].pc = "up_write" /\ Acts(p) /\ id \in DOMAIN entries
            /\ entries[id].version # proc[p].cur.version)
            => /\ proc'[p].pc = "done"
               /\ proc'[p].result = "fail"
               /\ entries' = entries]_vars

\* Any two distinct active entries of one project have different slugs.
SlugsUnique ==
    \A a \in DOMAIN entries, b \in DOMAIN entries :
        (a # b /\ entries[a].is_active /\ entries[b].is_active
           /\ entries[a].project_id = entries[b].project_id)
           => entries[a].slug # entries[b].slug

\* C4: in every state the active entries of a project have pairwise different
\* slugs, and a createEntry whose slug is held by an active entry of the
\* project fails and creates no entry.
C4_SlugUniqueness ==
    /\ []SlugsUnique
    /\ [][\A p \in Procs :
            Starts(p, {"createEntry"})
               => IF proc'[p].pc = "done"
                  THEN proc'[p].result = "fail" /\ entries' = entries
                  ELSE LET n == proc'[p].entryId IN
                       /\ DOMAIN entries' = DOMAIN entries \cup {n}
                       /\ ~\E o \in DOMAIN entries :
                             /\ entries[o].is_active
                             /\ entries[o].project_id = entries'[n].project_id
                             /\ entries[o].slug = entries'[n].slug]_vars

\* A createEntry was refused by the slug index while the slug is active once
\* in each of the two projects.
C4_Witness ==
    /\ \E p \in Procs : proc[p].op = "createEntry" /\ proc[p].at = "entryError"
    /\ \E a \in DOMAIN entries, b \in DOMAIN entries :
          /\ a # b
          /\ entries[a].is_active /\ entries[b].is_active
          /\ entries[a].slug = entries[b].slug
          /\ entries[a].project_id # entries[b].project_id

\* C5: of concurrent createEntry calls for one project and name, the one
\* that is refused is refused because of an entry that the other one creates:
\* the entry a refused createEntry lost to exists.
C5_LoserLostToCreatedEntry ==
    \A p \in Procs :
        (proc[p].op = "createEntry" /\ proc[p].pc = "done" /\ proc[p].at = "entryError")
           => proc[p].lostTo \in DOMAIN entries

\* C6: when the fork_timeline resolution of a conflict on entry E has run,
\* E and all canon_versions rows are as before and a new entry exists with a
\* new timeline_id, version 1 and E's content.
C6_ForkIsolation ==
    [][\A p \in Procs :
         LET id == proc[p].entryId IN
         (proc[p].pc = "fk_dup" /\ Acts(p) /\ id \in DOMAIN entries)
            => /\ id \in DOMAIN entries' /\ entries'[id] = entries[id]
               /\ versions' = versions
               /\ \E n \in DOMAIN entries' \ DOMAIN entries :
                     /\ entries'[n].timeline_id = proc[p].tl
                     /\ entries'[n].timeline_id # NoId
                     /\ entries'[n].version = 1
                     /\ Content(entries'[n]) = Content(proc[p].cur)]_vars

\* C7: the fork_timeline resolution of a conflict whose entry exists returns
\* success, having added a timeline with is_main = FALSE and an entry at
\* version 1 on that timeline.
C7_ForkSucceeds ==
    [][\A p \in Procs :
         (proc[p].pc = "fk_dup" /\ Acts(p))
            => /\ proc'[p].result = "ok"
               /\ proc[p].tl \in DOMAIN timelines'
               /\ ~timelines'[proc[p].tl].is_main
               /\ Cardinality(DOMAIN entries') = Cardinality(DOMAIN entries) + 1
               /\ \E n \in DOMAIN entries' \ DOMAIN entries :
                     entries'[n].timeline_id = proc[p].tl /\ entries'[n].version = 1]_vars

\* C8: the canon_versions row that restoreVersion(entryId, N) appends has
\* the name, description and payload of snapshot N, and the rows that were
\* there stay as they are.
C8_RestoreAppendsSnapshot ==
    [][\A p \in Procs :
         (proc[p].pc = "up_version" /\ proc[p].op = "restoreVersion" /\ Acts(p))
            => /\ versions \sqsubseteq versions'
               /\ \A r \in AddedRows :
                     /\ r.canon_entry_id = proc[p].entryId
                     /\ \A s \in VersionRows(versions, proc[p].entryId) :
                           s.version = proc[p].snap => Content(r) = Content(s)]_vars

\* C9: whenever no call is in flight, the canon_versions rows of every entry
\* are numbered exactly 1..version, each number once.
C9_HistoryContiguous ==
    (\A p \in Procs : proc[p].pc = "done")
       => \A e \in DOMAIN entries :
             /\ {r.version : r \in VersionRows(versions, e)} = 1..entries[e].version
             /\ \A r \in VersionRows(versions, e) : versions[r] = 1

\* C10: while an entry is hard_locked no step other than a lockEntry call
\* changes any of its fields.
C10_HardLockRejectsMutation ==
    [][\A e \in DOMAIN entries :
         (entries[e].lock_status = "hard_locked"
            /\ (e \notin DOMAIN entries' \/ entries'[e] # entries[e]))
            => \E p \in Procs : Starts(p, {"lockEntry"}) /\ proc'[p].entryId = e]_vars

\* Some canon entry of the project is stored.
HasCanon(projectId) == \E e \in DOMAIN entries : entries[e].project_id = projectId

\* The main timelines of a project.
MainTimelines(projectId) ==
    {t \in DOMAIN timelines : timelines[t].project_id = projectId /\ timelines[t].is_main}

\* C11: every project that has canon has exactly one timeline with
\* is_main = TRUE.
C11_OneMainTimeline ==
    \A projectId \in Projects :
        HasCanon(projectId) => Cardinality(MainTimelines(projectId)) = 1

\* C12: every timeline that is not the main one has a parent, and the parent
\* is the main timeline of its project.
C12_ForkParentIsMain ==
    \A t \in DOMAIN timelines :
        ~timelines[t].is_main
           => /\ timelines[t].parent_timeline_id # NoId
              /\ timelines[t].parent_timeline_id \in MainTimelines(timelines[t].project_id)

\* C13: resolveConflict keep_canon returns success whatever the state of the
\* entry it names - hard-locked, soft-deleted or not stored - and changes no
\* canon entry, no canon_versions row, no type-specific row and no timeline.
C13_KeepCanonNoOp ==
    [][\A p \in Procs :
         Starts(p, {"keep_canon"})
            => /\ proc'[p].pc = "done"
               /\ proc'[p].result = "ok"
               /\ UNCHANGED <<entries, versions, typeRecs, timelines>>]_vars

\* A keep_canon returned success for an entry that is hard-locked and at the
\* version and version rows it was created with.
C13_Witness ==
    \E p \in Procs :
        /\ proc[p].op = "keep_canon"
        /\ proc[p].pc = "done"
        /\ proc[p].result = "ok"
        /\ proc[p].entryId \in DOMAIN entries
        /\ entries[proc[p].entryId].lock_status = "hard_locked"
        /\ entries[proc[p].entryId].version = 1
        /\ Cardinality(VersionRows(versions, proc[p].entryId)) = 1

\* C14: resolveConflict update_canon on an entry that deleteEntry has
\* deleted returns failure at once and changes no entry, no canon_versions
\* row and no timeline.
C14_UpdateCanonOnDeletedFails ==
    [][\A p \in Procs :
         LET id == proc'[p].entryId IN
         (Starts(p, {"update_canon"}) /\ id \in DOMAIN entries /\ ~entries[id].is_active)
            => /\ proc'[p].pc = "done"
               /\ proc'[p].result = "fail"
               /\ UNCHANGED <<entries, versions, timelines>>]_vars

\* C15: a resolveConflict whose resolution is none of keep_canon,
\* update_canon, fork_timeline returns failure at once, and so does an
\* update_canon without updatedCanonData (an update_canon goes on only with
\* a payload); neither changes an entry, a canon_versions row, a
\* type-specific row or a timeline.
C15_InvalidResolutionFails ==
    [][\A p \in Procs :
         /\ Starts(p, Resolutions \ {"keep_canon", "update_canon", "fork_timeline"})
               => /\ proc'[p].pc = "done"
                  /\ proc'[p].result = "fail"
                  /\ UNCHANGED <<entries, versions, typeRecs, timelines>>
         /\ Starts(p, {"update_canon"})
               => \/ proc'[p].pc # "done" /\ Truthy(proc'[p].updates.entityData)
                  \/ /\ proc'[p].pc = "done"
                     /\ proc'[p].result = "fail"
                     /\ UNCHANGED <<entries, versions, typeRecs, timelines>>]_vars

\* An update_canon without payload was refused for a stored, active, unlocked
\* entry, which is still at version 1 with its one version row.
C15_Witness ==
    \E p \in Procs :
        /\ proc[p].op = "update_canon"
        /\ proc[p].pc = "done"
        /\ proc[p].result = "fail"
        /\ proc[p].at = "no_payload"
        /\ proc[p].entryId \in DOMAIN entries
        /\ entries[proc[p].entryId].is_active
        /\ entries[proc[p].entryId].lock_status = "unlocked"
        /\ entries[proc[p].entryId].version = 1
        /\ Cardinality(VersionRows(versions, proc[p].entryId)) = 1

\* Request p is the only one that has run so far: no call has used another
\* slot, so nothing has interleaved with p's call.
RunsAlone(p) == \A q \in Procs \ {p} : proc[q].op = "none"

\* The value a field has after a patch: the patch value when the patch has
\* the field, the previous value when it has not.
Patched(patchValue, previous) == IF patchValue = Undefined THEN previous ELSE patchValue

\* C16: an updateEntry that runs uninterrupted stores, for each of name,
\* description and payload, the patch value when the patch has the field and
\* the previous value when it has not, and the canon_versions row it appends
\* has the name, description and payload of the entry as stored after the
\* update.
C16_UpdateSemantics ==
    [][\A p \in Procs :
         LET id == proc[p].entryId
             u == proc[p].updates
         IN (Acts(p) /\ RunsAlone(p) /\ id \in DOMAIN entries)
               => /\ (proc[p].pc = "up_write" /\ proc'[p].pc # "done")
                        => /\ entries'[id].name = Patched(u.name, entries[id].name)
                           /\ entries'[id].description =
                                 Patched(u.description, entries[id].description)
                           /\ entries'[id].data = Patched(u.entityData, entries[id].data)
                  /\ proc[p].pc = "up_version"
                        => /\ AddedRows # {}
                           /\ \A r \in AddedRows : Content(r) = Content(entries[id])]_vars

\* C17: an updateEntry that reads the entry soft_locked goes on as for an
\* unlocked entry - its write stores the patch and the read version + 1 and
\* leaves the lock state, and it appends exactly one canon_versions row with
\* that version and returns success - and an update is refused for the lock
\* state only when it read hard_locked.
C17_SoftLockAdvisory ==
    [][\A p \in Procs :
         LET id == proc[p].entryId
             u == proc[p].updates
             cur == proc[p].cur
         IN /\ (ReadsForUpdate(p) /\ proc'[p].entryId \in DOMAIN entries)
                  => LET e == entries[proc'[p].entryId] IN
                     /\ e.lock_status = "soft_locked"
                           => proc'[p].pc = "up_write" /\ proc'[p].cur = e
                     /\ proc'[p].at = "hard_locked" => e.lock_status = "hard_locked"
            /\ (Acts(p) /\ cur.lock_status = "soft_locked" /\ id \in DOMAIN entries)
                  => /\ (proc[p].pc = "up_write" /\ proc'[p].pc # "done")
                           => /\ entries'[id].version = cur.version + 1
                              /\ entries'[id].name = Patched(u.name, entries[id].name)
                              /\ entries'[id].description =
                                    Patched(u.description, entries[id].description)
                              /\ entries'[id].data = Patched(u.entityData, entries[id].data)
                              /\ entries'[id].lock_status = entries[id].lock_status
                     /\ proc[p].pc = "up_version"
                           => /\ proc'[p].result = "ok"
                              /\ versions \sqsubseteq versions'
                              /\ BagCardinality(versions') = BagCardinality(versions) + 1
                              /\ \A r \in AddedRows :
                                    r.canon_entry_id = id /\ r.version = cur.version + 1]_vars

\* An update that read the entry soft_locked has written version 2 to it and
\* is about to append its version row; the entry is still soft_locked.
C17_Witness ==
    \E p \in Procs :
        /\ proc[p].pc = "up_version"
        /\ proc[p].cur.lock_status = "soft_locked"
        /\ proc[p].cur.version = 1
        /\ proc[p].entryId \in DOMAIN entries
        /\ entries[proc[p].entryId].lock_status = "soft_locked"
        /\ entries[proc[p].entryId].version = 2

\* C18: a lockEntry call returns success and changes nothing but the
\* lock_status and locked_by of the entry it names: that entry's version,
\* name, slug, description, payload and is_active, every other entry, the
\* canon_versions rows, the type-specific rows and the timelines stay.
C18_LockEntryFrame ==
    [][\A p \in Procs :
         Starts(p, {"lockEntry"})
            => /\ proc'[p].pc = "done"
               /\ proc'[p].result = "ok"
               /\ UNCHANGED <<versions, typeRecs, timelines>>
               /\ DOMAIN entries' = DOMAIN entries
               /\ \A e \in DOMAIN entries :
                     /\ entries'[e].lock_status \in LockStatuses
                     /\ [entries'[e] EXCEPT !.lock_status = entries[e].lock_status,
                                            !.locked_by = entries[e].locked_by] = entries[e]
                     /\ e # proc'[p].entryId => entries'[e] = entries[e]]_vars

\* A lockEntry returned for an entry that an update had brought to version 2:
\* the entry is hard_locked, still active, at version 2 with two version rows.
C18_Witness ==
    \E p \in Procs :
        /\ proc[p].op = "lockEntry"
        /\ proc[p].pc = "done"
        /\ proc[p].result = "ok"
        /\ proc[p].entryId \in DOMAIN entries
        /\ entries[proc[p].entryId].lock_status = "hard_locked"
        /\ entries[proc[p].entryId].locked_by = UserId
        /\ entries[proc[p].entryId].is_active
        /\ entries[proc[p].entryId].version = 2
        /\ Cardinality(VersionRows(versions, proc[p].entryId)) = 2

\* C19: deleteEntry changes nothing but the is_active flag of the entry it
\* names, which becomes FALSE (the row, its version and all canon_versions
\* rows stay), and a createEntry whose slug is that of an inactive entry of
\* the project, and of no active one, returns success.
C19_SoftDeleteFreesSlug ==
    [][\A p \in Procs :
         LET id == proc[p].entryId IN
         /\ (Starts(p, {"deleteEntry"}) /\ proc'[p].entryId \in DOMAIN entries)
               => /\ entries' = [entries EXCEPT ![proc'[p].entryId].is_active = FALSE]
                  /\ UNCHANGED <<versions, typeRecs, timelines>>
         /\ (proc[p].op = "createEntry" /\ proc[p].pc # "done" /\ proc'[p].pc = "done"
               /\ id \in DOMAIN entries
               /\ \E o \in DOMAIN entries \ {id} :
                     /\ ~entries[o].is_active
                     /\ entries[o].project_id = entries[id].project_id
                     /\ entries[o].slug = entries[id].slug)
               => proc'[p].result = "ok"]_vars

\* C20: a createEntry that runs uninterrupted and is not refused for its slug
\* returns success and leaves its entry stored, active, at version 1, with
\* exactly one canon_versions row (version 1) and in the result of
\* loadCanonContext for its project.
C20_CreatePostcondition ==
    \A p \in Procs :
        LET id == proc[p].entryId IN
        (proc[p].op = "createEntry" /\ proc[p].pc = "done" /\ proc[p].at # "entryError"
           /\ RunsAlone(p))
           => /\ proc[p].result = "ok"
              /\ id \in DOMAIN entries
              /\ entries[id].is_active
              /\ entries[id].version = 1
              /\ {r.version : r \in VersionRows(versions, id)} = {1}
              /\ \A r \in VersionRows(versions, id) : versions[r] = 1
              /\ id \in loadCanonContext(entries[id].project_id)

\* Entry e is being created: its createEntry has not returned.
BeingCreated(e) ==
    \E p \in Procs : proc[p].op = "createEntry" /\ proc[p].pc # "done" /\ proc[p].entryId = e

\* C21: loadCanonContext(projectId) returns exactly the entries of the
\* project that are active and have no timeline_id (an entry whose
\* createEntry has not returned yet aside), each with locked = (lock_status
\* is not unlocked); soft-deleted entries and entries with a timeline_id are
\* not in it.
C21_ContextContents ==
    \A projectId \in Projects :
        /\ {e \in loadCanonContext(projectId) : ~BeingCreated(e)}
              = {e \in DOMAIN entries :
                    /\ ~BeingCreated(e)
                    /\ entries[e].project_id = projectId
                    /\ entries[e].is_active
                    /\ entries[e].timeline_id = NoId}
        /\ \A e \in loadCanonContext(projectId) :
              /\ entries[e].is_active
              /\ entries[e].timeline_id = NoId
              /\ ContextRow(e).locked = (entries[e].lock_status \in {"soft_locked", "hard_locked"})

\* Project p1 has a soft-deleted entry with its type-specific row and an
\* active copy of it on a forked timeline, no call is in flight, and the
\* context of p1 is empty.
C21_Witness ==
    \E b \in DOMAIN entries, c \in DOMAIN entries :
        /\ entries[b].project_id = "p1" /\ entries[c].project_id = "p1"
        /\ ~entries[b].is_active /\ b \in DOMAIN typeRecs
        /\ entries[c].is_active /\ entries[c].timeline_id # NoId
        /\ loadCanonContext("p1") = {}
        /\ \A p \in Procs : proc[p].pc = "done"

\* The canon: entries (with their lock states), version rows, type-specific
\* rows and timelines.
canon == <<entries, versions, typeRecs, timelines>>

\* C22: no step of a loadCanonContext, generate or validateAgainstCanon call
\* - the collaborator's answer included, whatever it is - and no step that
\* hands out a generator or adapter changes a canon entry, a canon_versions
\* row, a type-specific row or a timeline.
C22_GeneratorLeavesCanon ==
    [][gvars' # gvars => canon' = canon]_vars

\* A generate call on a project with a hard-locked entry in its context has
\* returned conflicts, and the canon is the one the call started with.
C22_Witness ==
    /\ gcall.op = "generate"
    /\ gcall.pc = "done"
    /\ gcall.success
    /\ Len(gcall.result) = 3
    /\ gcall.context = {1}
    /\ entries = <<StoredElena, StoredMarcus>>
    /\ BagCardinality(versions) = 2

\* The text of the response holds a well-formed conflict list: a JSON array
\* all of whose elements are conflicts.
HasConflictList(response) ==
    /\ response.type = "text"
    /\ response.json = "array"
    /\ \A i \in 1..Len(response.items) :
          response.items[i].severity \in {"warning", "error"}

\* C23: a validateAgainstCanon call whose collaborator call was rejected,
\* gave a non-text block or gave text without a well-formed conflict list
\* returns the empty list, and no exception escapes.
C23_DegradeToEmpty ==
    (gcall.op = "validateAgainstCanon" /\ gcall.pc = "done" /\ gcall.called
       /\ ~HasConflictList(gcall.response))
       => gcall.result = <<>> /\ ~gcall.threw

\* The place of conflict c in the list.
PlaceIn(list, c) == CHOOSE k \in 1..Len(list) : list[k] = c

Resolved(id) == \E r \in VersionRows(versions, id) : r.change_reason = "Conflict"

\* C26: once a resolveConflict has succeeded for a conflict, no step of a
\* resolveConflict for the same conflict changes an entry, a canon_versions
\* row, a type-specific row or a timeline.
C26_ResolvedOnce ==
    [][\A p \in Procs :
         (proc[p].op \in {"update_canon", "fork_timeline"} /\ proc[p].pc # "done"
            /\ Acts(p) /\ Resolved(proc[p].entryId))
            => canon' = canon]_vars

\* C27: when a createEntry, updateEntry or restoreVersion that ran
\* uninterrupted has returned success, the type-specific row of its entry has
\* the name and the payload of the canon_entries row.
C27_DetailInSync ==
    \A p \in Procs :
        LET id == proc[p].entryId IN
        (proc[p].op \in {"createEntry", "updateEntry", "restoreVersion"}
           /\ proc[p].pc = "done" /\ proc[p].result = "ok" /\ RunsAlone(p)
           /\ id \in DOMAIN entries)
           => /\ id \in DOMAIN typeRecs
              /\ typeRecs[id].name = entries[id].name
              /\ typeRecs[id].data = entries[id].data

\* C28: no write of an updateEntry changes an entry whose stored lock_status
\* is hard_locked at the moment of the write.
C28_NoWriteUnderHardLock ==
    [][\A p \in Procs :
         LET id == proc[p].entryId IN
         (proc[p].pc = "up_write" /\ Acts(p) /\ id \in DOMAIN entries
            /\ entries[id].lock_status = "hard_locked")
            => entries' = entries]_vars

\* C29: every timeline whose fork_timeline call has returned has an entry
\* that carries its id; a failed fork leaves no timeline behind.
C29_ForkAllOrNothing ==
    \A t \in DOMAIN timelines :
        (\A p \in Procs : ~(proc[p].pc = "fk_dup" /\ proc[p].tl = t))
           => \E e \in DOMAIN entries : entries[e].timeline_id = t

\* C30: the canonEnforcement that a validateAgainstCanon call applies is the
\* one that was passed when the object it is called on was obtained.
C30_ConfiguredEnforcementApplies ==
    (gcall.op = "validateAgainstCanon" /\ obtained[gcall.handle].requested # Undefined)
       => gcall.enforcement = obtained[gcall.handle].requested
====
